---- MODULE Spec2Model ----
(***************************************************************************)
(* Model of MultiAgentOrchestrator (src/multi_agent_system.py): the        *)
(* orchestrate state machine, its four agent invocations, the session      *)
(* store slots it reads, and the instance attribute intent_state; and of   *)
(* the tools registered in src/mcp_server.py (ToolSpec), one call each.    *)
(*                                                                         *)
(* Texts are sequences of chunks.  A chunk of an intent text is a single   *)
(* character; fixed literals of the code are one chunk each.  Python's     *)
(* None is NoneVal, an attribute that was never assigned is Unset.         *)
(*                                                                         *)
(* A request is named by its user: at most one request per user is in     *)
(* flight, requests of different users interleave.                         *)
(*                                                                         *)
(* A step of the model is the code between two suspension points of a      *)
(* request: the awaits on the in-memory session service never suspend, so  *)
(* a task only yields to the event loop while it waits for the next event  *)
(* of an agent's event stream.                                             *)
(***************************************************************************)
EXTENDS Integers, Sequences, FiniteSets, TLC

VARIABLES sessions, intent_state, req, result, started, call, provider, mcp, banking, mongo, qdrant

vars == <<sessions, intent_state, req, result, started, call, provider, mcp, banking, mongo, qdrant>>

\* the variables of the orchestrator, the variables of the other
\* components, and for each of those the variables it leaves alone
orch_vars == <<sessions, intent_state, req, result, started>>
side_vars == <<call, provider, mcp, banking, mongo, qdrant>>
beside_call == <<orch_vars, provider, mcp, banking, mongo, qdrant>>
beside_provider == <<orch_vars, call, mcp, banking, mongo, qdrant>>
beside_mcp == <<orch_vars, call, provider, banking, mongo, qdrant>>
beside_banking == <<orch_vars, call, provider, mcp, mongo, qdrant>>
beside_mongo == <<orch_vars, call, provider, mcp, banking, qdrant>>
beside_qdrant == <<orch_vars, call, provider, mcp, banking, mongo>>

\* ---------------------------------------------------------------- bounds
MaxRequests == 2
MaxIntentLen == 3

\* ---------------------------------------------------------------- domains
Users == {"u1", "u2"}
Queries == [u \in Users |-> {<<"query of ", u>>}]
Roles == {"orchestrator_session", "mcp_session", "rag_session", "final_response_session"}

NoneVal == <<"<None>">>
Unset == <<"<Unset>">>

Whitespace == {" "}
Punctuation == {","}
Uppercase == {"A"}
Chars == {"a", "b", "c", "d"} \cup Uppercase \cup Whitespace \cup Punctuation

RECURSIVE TextsUpTo(_)
TextsUpTo(n) ==
    IF n = 0 THEN {<<>>}
    ELSE LET S == TextsUpTo(n - 1)
         IN S \cup {Append(t, c) : t \in {x \in S : Len(x) = n - 1}, c \in Chars}

AllIntents == TextsUpTo(MaxIntentLen)

SampleIntents ==
    { <<>>, <<"a">>, <<"a", " ", "b">>, <<"c", " ", "d">>, <<"a", " ", "c">> }

AgentTexts == {<<>>, <<"text">>}
ErrorTexts == {<<>>, <<"boom">>}

\* ------------------------------------------------- text functions (pure)
RECURSIVE lstrip(_)
lstrip(t) == IF t # <<>> /\ Head(t) \in Whitespace THEN lstrip(Tail(t)) ELSE t

RECURSIVE rstrip(_)
rstrip(t) ==
    IF t # <<>> /\ t[Len(t)] \in Whitespace THEN rstrip(SubSeq(t, 1, Len(t) - 1)) ELSE t

strip(t) == rstrip(lstrip(t))

translate(t) == SelectSeq(t, LAMBDA c : c \notin Punctuation)

remove_punctuation(t) == strip(translate(t))

\* str.split(): the list of maximal runs of non-whitespace characters
RECURSIVE split(_)
split(t) ==
    LET s == lstrip(t)
    IN IF s = <<>> THEN <<>>
       ELSE LET n == CHOOSE k \in 1..Len(s) :
                        /\ \A i \in 1..k : s[i] \notin Whitespace
                        /\ (k = Len(s) \/ s[k + 1] \in Whitespace)
            IN <<SubSeq(s, 1, n)>> \o split(SubSeq(s, n + 1, Len(s)))

set(l) == {l[i] : i \in DOMAIN l}

truthy(v) == v # NoneVal /\ v # <<>>

\* f"{v}"
fmt(v) == IF v = NoneVal THEN <<"None">> ELSE v

\* ---------------------------------------------------------- configuration
intent_types ==
    [ transaction |-> <<"a", " ", "b">>,
      product     |-> <<"c", " ", "d">>,
      hybrid      |-> <<"a", " ", "b", " ", "c", " ", "d">> ]

category_words(c) == set(split(intent_types[c]))

\* threshold > 0 in place of > 1
matches_single_word(c, words) == Cardinality(category_words(c) \cap words) > 0

\* one test of the if / elif chain of orchestrate, lines 217-225
matches(c, words) == Cardinality(category_words(c) \cap words) > 1

\* the hybrid test moved to the front of the chain
branch_of_hybrid_first(words) ==
    IF matches("hybrid", words) THEN "hybrid"
    ELSE IF matches("transaction", words) THEN "transaction"
    ELSE IF matches("product", words) THEN "product"
    ELSE "none"

branch_of(words) ==
    IF matches("transaction", words) THEN "transaction"
    ELSE IF matches("product", words) THEN "product"
    ELSE IF matches("hybrid", words) THEN "hybrid"
    ELSE "none"

\* ------------------------------------------------------------ literals
MCP_ERROR_PREFIX == <<"Error retrieving transaction data: ">>
RAG_ERROR_PREFIX == <<"Error retrieving product information: ">>
APOLOGY == <<"I apologize, but I encountered an error generating the final response. Please try again.">>
QUERY_LABEL == "Original User Query: "
INTENT_LABEL == "Detected Intent: "
TRANSACTION_SECTION == "\n--- Transaction Data ---\n"
PRODUCT_SECTION == "\n--- Product Information ---\n"
SYNTH_REQUEST == "\nPlease synthesize a final, natural response for the user."

AttributeError == <<"AttributeError">>
TypeError == <<"TypeError">>
UnboundLocalError == <<"UnboundLocalError">>

\* ------------------------------------------------------------- state
\* a key of the session store with no thread behind it; created counts the
\* threads ever stored under the key
NoSession == [exists |-> FALSE, out |-> NoneVal, user_id |-> "-", created |-> 0]
NoResult == [returned |-> FALSE]

\* no tool of src/mcp_server.py has been called yet
NoCall == [tool |-> "-"]

\* no MultiAgentOrchestrator has been constructed yet
NoProvider == [pc |-> "off", keys |-> {}, error |-> "-"]

\* the module globals of src/mcp_tools.py after import, and no thread in
\* get_tools_sync
PyNone == [type |-> "NoneType"]

Callers == {"t1", "t2"}

NoMcp ==
    [ _mcp_thread |-> 0, _mcp_tools_ready |-> 0,
      _mcp_tools_result |-> PyNone, _mcp_tools_error |-> PyNone,
      threads |-> <<>>,
      callers |-> [c \in Callers |-> [pc |-> "out", waited |-> 0, outcome |-> PyNone]] ]

\* the BankingAgent of src/backend/main.py after its construction at line
\* 197: no MultiAgentOrchestrator yet, no chat request in flight
NoBanking ==
    [ multi_agent |-> 0, stores |-> <<>>, chats |-> 0,
      at |-> [u \in Users |-> [pc |-> "out", on |-> 0, raised |-> FALSE]] ]

\* AsyncMongoDBClient.__init__ of src/mongo_client.py, the database server
\* up, and no operation made yet
NoOperation == [op |-> "-", type |-> "-", value |-> "-"]

NewMongo ==
    [ client |-> "AsyncMongoClient", db |-> "None", _is_connected |-> FALSE,
      reachable |-> TRUE, ops |-> 0, last |-> NoOperation ]

\* a QdrantManager of src/qdrant_vector_database.py constructed with no
\* cache file and an empty collection, before any call of add_documents
NoQdrant ==
    [ cached_ids |-> {}, cache_ids_file |-> {}, points |-> <<>>, calls |-> 0,
      last |-> [documents |-> <<>>, ids_to_add |-> <<>>, raised |-> FALSE] ]

IdleRequest ==
    [ pc |-> "idle", user_id |-> "-", query |-> <<>>, branch |-> "-",
      mcp_output |-> NoneVal, rag_output |-> NoneVal, context |-> <<>>,
      calls |-> <<>>, raised |-> {}, orch |-> "-", read_intent |-> Unset,
      routed_on |-> Unset, saved |-> {}, abandoned |-> {},
      wrote |-> FALSE ]

Init ==
    /\ sessions = [k \in Users \X Roles |-> NoSession]
    /\ intent_state = Unset
    /\ req = [r \in Users |-> IdleRequest]
    /\ result = [r \in Users |-> NoResult]
    /\ started = 0
    /\ call = NoCall
    /\ provider = NoProvider
    /\ mcp = NoMcp
    /\ banking = NoBanking
    /\ mongo = NewMongo
    /\ qdrant = NoQdrant

\* session_service.create_session raises for an existing id, get_session
\* then returns the stored thread; a new thread starts with {user_id} only
create_session(sess, u, session_id) ==
    [sess EXCEPT ![<<u, session_id>>] =
        [exists |-> TRUE, out |-> NoneVal, user_id |-> u, created |-> @.created + 1]]

\* a second thread stored under the key of an existing one
_get_or_create_session_always_creates(sess, u, session_id) ==
    create_session(sess, u, session_id)

_get_or_create_session(sess, u, session_id) ==
    IF sess[<<u, session_id>>].exists THEN sess
    ELSE create_session(sess, u, session_id)

\* one thread per role, shared by the users
write_output_shared(sess, u, session_id, t) ==
    [k \in DOMAIN sess |-> IF k[2] = session_id THEN [sess[k] EXCEPT !.out = t]
                                                ELSE sess[k]]

\* the executor stores the final text under the agent's output_key; only
\* query_intent is ever read back (line 555), so only that slot is kept
write_output(sess, u, session_id, t) ==
    [sess EXCEPT ![<<u, session_id>>].out = t]

\* session.state.get("query_intent")
get_query_intent(sess, u) == sess[<<u, "orchestrator_session">>].out

\* after_agent_callback: it runs once the agent's event stream has been
\* consumed to its end; saved collects the agents of the request whose
\* thread the callback has handed to memory_service.add_session_to_memory
auto_save_session_to_memory_callback(rq, agent) ==
    [rq EXCEPT !.saved = @ \cup {agent}]

\* if event.is_final_response(): ...; break -- the loop is left at the
\* final event and the stream is not resumed; abandoned collects the
\* agents of the request whose stream was left this way
break_on_final(rq, agent) ==
    [rq EXCEPT !.abandoned = @ \cup {agent}]

\* ----------------------------------------------- entering the next stage
\* return of orchestrate through the outer except clause
Fail(r, rq, e, sess, is) ==
    /\ sessions' = sess
    /\ intent_state' = is
    /\ req' = [req EXCEPT ![r] = [rq EXCEPT !.pc = "done"]]
    /\ result' = [result EXCEPT ![r] =
                     [success |-> FALSE, error |-> e, user_id |-> rq.user_id]]

\* the two specialists of the hybrid branch started together
StartMcp_gather(r, rq, sess, is) ==
    /\ sessions' = _get_or_create_session(sess, rq.user_id, "mcp_session")
    /\ intent_state' = is
    /\ req' = [req EXCEPT ![r] =
                  [rq EXCEPT !.pc = "mcp",
                             !.calls = IF rq.branch = "hybrid"
                                       THEN @ \o <<"mcp_tools_agent", "rag_agent">>
                                       ELSE Append(@, "mcp_tools_agent")]]
    /\ UNCHANGED result

\* _run_mcp_agent up to its first wait on the event stream
StartMcp(r, rq, sess, is) ==
    /\ sessions' = _get_or_create_session(sess, rq.user_id, "mcp_session")
    /\ intent_state' = is
    /\ req' = [req EXCEPT ![r] =
                  [rq EXCEPT !.pc = "mcp", !.calls = Append(@, "mcp_tools_agent")]]
    /\ UNCHANGED result

\* _run_rag_agent up to its first wait on the event stream
StartRag(r, rq, sess, is) ==
    /\ sessions' = _get_or_create_session(sess, rq.user_id, "rag_session")
    /\ intent_state' = is
    /\ req' = [req EXCEPT ![r] =
                  [rq EXCEPT !.pc = "rag", !.calls = Append(@, "rag_agent")]]
    /\ UNCHANGED result

\* the product section guarded by the wrong output
build_context_wrong_guard(query, intent, mcp_output, rag_output) ==
    <<QUERY_LABEL>> \o query \o <<"\n">>
    \o <<INTENT_LABEL>> \o fmt(intent) \o <<"\n">>
    \o (IF truthy(mcp_output) THEN <<TRANSACTION_SECTION>> \o mcp_output \o <<"\n">> ELSE <<>>)
    \o (IF truthy(mcp_output) THEN <<PRODUCT_SECTION>> \o fmt(rag_output) \o <<"\n">> ELSE <<>>)
    \o <<SYNTH_REQUEST>>

\* "".join(context_parts), lines 501-512
build_context(query, intent, mcp_output, rag_output) ==
    <<QUERY_LABEL>> \o query \o <<"\n">>
    \o <<INTENT_LABEL>> \o fmt(intent) \o <<"\n">>
    \o (IF truthy(mcp_output) THEN <<TRANSACTION_SECTION>> \o mcp_output \o <<"\n">> ELSE <<>>)
    \o (IF truthy(rag_output) THEN <<PRODUCT_SECTION>> \o rag_output \o <<"\n">> ELSE <<>>)
    \o <<SYNTH_REQUEST>>

\* the request classified again where it should synthesize
StartSynth_reclassifies(r, rq, sess, is) ==
    /\ sessions' = _get_or_create_session(sess, rq.user_id, "orchestrator_session")
    /\ intent_state' = is
    /\ req' = [req EXCEPT ![r] =
                  [rq EXCEPT !.pc = "orch", !.calls = <<"orchestrator_agent">>]]
    /\ UNCHANGED result

\* _run_final_response_agent up to its first wait on the event stream;
\* the intent argument is self.intent_state as it is at the call
StartSynth(r, rq, sess, is) ==
    /\ sessions' = _get_or_create_session(sess, rq.user_id, "final_response_session")
    /\ intent_state' = is
    /\ req' = [req EXCEPT ![r] =
                  [rq EXCEPT !.pc = "synth",
                             !.calls = Append(@, "final_response_agent"),
                             !.context = build_context(rq.query, is, rq.mcp_output, rq.rag_output)]]
    /\ UNCHANGED result

\* an intent that matches no category treated as an error
Route_none_fails(r, rq, sess, is) ==
    IF is = Unset \/ is = NoneVal
    THEN Fail(r, rq, AttributeError, sess, is)
    ELSE LET stripped == strip(is)
             intent_state_words == set(split(remove_punctuation(stripped)))
             b == branch_of(intent_state_words)
             rq2 == [rq EXCEPT !.branch = b, !.routed_on = stripped,
                               !.mcp_output = NoneVal, !.rag_output = NoneVal]
         IN CASE b = "transaction" -> StartMcp(r, rq2, sess, stripped)
              [] b = "product"     -> StartRag(r, rq2, sess, stripped)
              [] b = "hybrid"      -> StartMcp(r, rq2, sess, stripped)
              [] OTHER             -> Fail(r, rq2, <<"unknown intent">>, sess, stripped)

\* orchestrate lines 209-228: normalise self.intent_state and pick the branch
Route(r, rq, sess, is) ==
    IF is = Unset \/ is = NoneVal
    THEN Fail(r, rq, AttributeError, sess, is)
    ELSE LET stripped == strip(is)
             intent_state_words == set(split(remove_punctuation(stripped)))
             b == branch_of(intent_state_words)
             rq2 == [rq EXCEPT !.branch = b, !.routed_on = stripped,
                               !.mcp_output = NoneVal, !.rag_output = NoneVal]
         IN CASE b = "transaction" -> StartMcp(r, rq2, sess, stripped)
              [] b = "product"     -> StartRag(r, rq2, sess, stripped)
              [] b = "hybrid"      -> StartMcp(r, rq2, sess, stripped)
              [] OTHER             -> StartSynth(r, rq2, sess, stripped)

\* orchestrate lines 203-206: the test is on the error text, not on success
AfterOrchestrator(r, rq, state, sess, is) ==
    IF truthy(state.error)
    THEN /\ sessions' = sess
         /\ intent_state' = is
         /\ req' = [req EXCEPT ![r] = [rq EXCEPT !.pc = "done"]]
         /\ result' = [result EXCEPT ![r] = [success |-> state.success, error |-> state.error]]
    ELSE Route(r, rq, sess, is)

\* ---------------------------------------------------------------- actions
\* orchestrate is called; _run_orchestrator runs up to its first wait
Start(r, limit) ==
    /\ req[r].pc = "idle"
    /\ started < limit
    /\ \E q \in Queries[r] :
          /\ sessions' = _get_or_create_session(sessions, r, "orchestrator_session")
          /\ req' = [req EXCEPT ![r] =
                        [IdleRequest EXCEPT !.pc = "orch", !.user_id = r, !.query = q,
                                            !.calls = <<"orchestrator_agent">>]]
    /\ started' = started + 1
    /\ UNCHANGED <<intent_state, result>>

\* the orchestrator's stream raises (or its final event has no content,
\* which raises at line 321 before get_query_intent is reached)
OrchRaise(r) ==
    /\ req[r].pc = "orch"
    /\ \E e \in ErrorTexts :
          AfterOrchestrator(r, [req[r] EXCEPT !.orch = "raised", !.raised = @ \cup {"orchestrator_agent"}],
                            [success |-> FALSE, error |-> e], sessions, intent_state)
    /\ UNCHANGED started

\* the orchestrator's stream yields its final event with text t; the
\* executor's write of the query_intent slot may be missing
OrchFinalIn(r, D) ==
    /\ req[r].pc = "orch"
    /\ \E t \in D, wrote \in BOOLEAN :
          LET u == req[r].user_id
              sess == IF wrote THEN write_output(sessions, u, "orchestrator_session", t)
                      ELSE sessions
              is == get_query_intent(sess, u)
          IN AfterOrchestrator(r, [break_on_final(req[r], "orchestrator_agent")
                                       EXCEPT !.orch = "final", !.read_intent = is,
                                              !.wrote = wrote],
                               [success |-> TRUE, error |-> NoneVal], sess, is)
    /\ UNCHANGED started

\* final event whose first part has no text: response is None, and
\* response.strip() raises after get_query_intent has run
OrchFinalNoText(r) ==
    /\ req[r].pc = "orch"
    /\ LET is == get_query_intent(sessions, req[r].user_id)
       IN AfterOrchestrator(r, [break_on_final(req[r], "orchestrator_agent") EXCEPT !.orch = "notext", !.read_intent = is],
                            [success |-> FALSE, error |-> AttributeError], sessions, is)
    /\ UNCHANGED started

\* the stream ends without a final event: response is unbound
OrchEnd(r) ==
    /\ req[r].pc = "orch"
    /\ LET is == get_query_intent(sessions, req[r].user_id)
       IN AfterOrchestrator(r, [auto_save_session_to_memory_callback(req[r], "orchestrator_agent")
                                EXCEPT !.orch = "ended", !.read_intent = is],
                            [success |-> FALSE, error |-> UnboundLocalError], sessions, is)
    /\ UNCHANGED started

\* orchestrate after _run_mcp_agent has returned
AfterMcp(r, rq, sess) ==
    IF rq.branch = "hybrid" THEN StartRag(r, rq, sess, intent_state)
    ELSE StartSynth(r, rq, sess, intent_state)

McpFinal(r) ==
    /\ req[r].pc = "mcp"
    /\ \E t \in AgentTexts \cup {NoneVal} :
          IF t = NoneVal
          THEN AfterMcp(r, [break_on_final(req[r], "mcp_tools_agent") EXCEPT !.mcp_output = MCP_ERROR_PREFIX \o TypeError], sessions)
          ELSE AfterMcp(r, [break_on_final(req[r], "mcp_tools_agent") EXCEPT !.mcp_output = t], sessions)
    /\ UNCHANGED started

\* the loop leaving an initial None in response when no final event came
McpEnd_returns_none(r) ==
    /\ req[r].pc = "mcp"
    /\ AfterMcp(r, [auto_save_session_to_memory_callback(req[r], "mcp_tools_agent")
                    EXCEPT !.mcp_output = NoneVal], sessions)
    /\ UNCHANGED started

McpEnd(r) ==
    /\ req[r].pc = "mcp"
    /\ AfterMcp(r, [auto_save_session_to_memory_callback(req[r], "mcp_tools_agent")
                    EXCEPT !.mcp_output = MCP_ERROR_PREFIX \o UnboundLocalError], sessions)
    /\ UNCHANGED started

\* _run_mcp_agent without its except clause: the exception reaches the
\* handler of orchestrate
McpRaise_propagates(r) ==
    /\ req[r].pc = "mcp"
    /\ \E e \in ErrorTexts :
          Fail(r, [req[r] EXCEPT !.raised = @ \cup {"mcp_tools_agent"}], e, sessions, intent_state)
    /\ UNCHANGED started

McpRaise(r) ==
    /\ req[r].pc = "mcp"
    /\ \E e \in ErrorTexts :
          AfterMcp(r, [req[r] EXCEPT !.mcp_output = MCP_ERROR_PREFIX \o e,
                                     !.raised = @ \cup {"mcp_tools_agent"}], sessions)
    /\ UNCHANGED started

RagFinal(r) ==
    /\ req[r].pc = "rag"
    /\ \E t \in AgentTexts \cup {NoneVal} :
          IF t = NoneVal
          THEN StartSynth(r, [break_on_final(req[r], "rag_agent") EXCEPT !.rag_output = RAG_ERROR_PREFIX \o TypeError],
                          sessions, intent_state)
          ELSE StartSynth(r, [break_on_final(req[r], "rag_agent") EXCEPT !.rag_output = t], sessions, intent_state)
    /\ UNCHANGED started

RagEnd(r) ==
    /\ req[r].pc = "rag"
    /\ StartSynth(r, [auto_save_session_to_memory_callback(req[r], "rag_agent")
                      EXCEPT !.rag_output = RAG_ERROR_PREFIX \o UnboundLocalError],
                  sessions, intent_state)
    /\ UNCHANGED started

RagRaise(r) ==
    /\ req[r].pc = "rag"
    /\ \E e \in ErrorTexts :
          StartSynth(r, [req[r] EXCEPT !.rag_output = RAG_ERROR_PREFIX \o e,
                                       !.raised = @ \cup {"rag_agent"}],
                     sessions, intent_state)
    /\ UNCHANGED started

\* orchestrate lines 244-253: the success result
Succeed(r, rq, final_response, sess) ==
    /\ sessions' = sess
    /\ req' = [req EXCEPT ![r] = [rq EXCEPT !.pc = "done"]]
    /\ result' = [result EXCEPT ![r] =
                     [success |-> TRUE, intent |-> intent_state,
                      final_response |-> final_response, user_id |-> rq.user_id]]
    /\ UNCHANGED <<intent_state, started>>

SynthFinal(r) ==
    /\ req[r].pc = "synth"
    /\ \E t \in AgentTexts \cup {NoneVal} :
          Succeed(r, break_on_final(req[r], "final_response_agent"), t, sessions)

SynthEnd(r) ==
    /\ req[r].pc = "synth"
    /\ Succeed(r, auto_save_session_to_memory_callback(req[r], "final_response_agent"),
               APOLOGY, sessions)

\* _run_final_response_agent without its except clause
SynthRaise_propagates(r) ==
    /\ req[r].pc = "synth"
    /\ \E e \in ErrorTexts :
          Fail(r, [req[r] EXCEPT !.raised = @ \cup {"final_response_agent"}], e, sessions,
               intent_state)
    /\ UNCHANGED started

SynthRaise(r) ==
    /\ req[r].pc = "synth"
    /\ Succeed(r, [req[r] EXCEPT !.raised = @ \cup {"final_response_agent"}], APOLOGY, sessions)

\* orchestrate returns to its caller in the same task step, before any
\* other task runs: the result is handed over and the locals are gone
Return(r) ==
    /\ req[r].pc = "done"
    /\ req' = [req EXCEPT ![r] = IdleRequest]
    /\ result' = [result EXCEPT ![r] = NoResult]
    /\ UNCHANGED <<sessions, intent_state, started>>

Returning == \E r \in Users : req[r].pc = "done"

\* requests of different users in flight at once, intents from a sample
Next ==
    \/ \E r \in Users : Return(r) /\ UNCHANGED side_vars
    \/ \E r \in Users : ~Returning /\ Start(r, MaxRequests) /\ UNCHANGED side_vars
    \/ \E r \in Users : ~Returning /\ OrchFinalIn(r, SampleIntents) /\ UNCHANGED side_vars
    \/ \E r \in Users : ~Returning /\ OrchRaise(r) /\ UNCHANGED side_vars
    \/ \E r \in Users : ~Returning /\ OrchFinalNoText(r) /\ UNCHANGED side_vars
    \/ \E r \in Users : ~Returning /\ OrchEnd(r) /\ UNCHANGED side_vars
    \/ \E r \in Users : ~Returning /\ McpFinal(r) /\ UNCHANGED side_vars
    \/ \E r \in Users : ~Returning /\ McpEnd(r) /\ UNCHANGED side_vars
    \/ \E r \in Users : ~Returning /\ McpRaise(r) /\ UNCHANGED side_vars
    \/ \E r \in Users : ~Returning /\ RagFinal(r) /\ UNCHANGED side_vars
    \/ \E r \in Users : ~Returning /\ RagEnd(r) /\ UNCHANGED side_vars
    \/ \E r \in Users : ~Returning /\ RagRaise(r) /\ UNCHANGED side_vars
    \/ \E r \in Users : ~Returning /\ SynthFinal(r) /\ UNCHANGED side_vars
    \/ \E r \in Users : ~Returning /\ SynthEnd(r) /\ UNCHANGED side_vars
    \/ \E r \in Users : ~Returning /\ SynthRaise(r) /\ UNCHANGED side_vars

Spec == Init /\ [][Next]_vars

\* the event stream the request of r waits on delivers its next outcome
StreamStepIn(r, D) ==
    \/ OrchFinalIn(r, D)
    \/ OrchRaise(r)
    \/ OrchFinalNoText(r)
    \/ OrchEnd(r)
    \/ McpFinal(r)
    \/ McpEnd(r)
    \/ McpRaise(r)
    \/ RagFinal(r)
    \/ RagEnd(r)
    \/ RagRaise(r)
    \/ SynthFinal(r)
    \/ SynthEnd(r)
    \/ SynthRaise(r)

StreamStep(r) == StreamStepIn(r, SampleIntents)

\* an absent label and a label of the hybrid branch
LiveIntents == { <<>>, <<"a", " ", "c">> }

\* requests of different users in flight at once, two intents
LiveNext ==
    \/ \E r \in Users : Return(r) /\ UNCHANGED side_vars
    \/ \E r \in Users : ~Returning /\ Start(r, MaxRequests) /\ UNCHANGED side_vars
    \/ \E r \in Users : ~Returning /\ StreamStepIn(r, LiveIntents) /\ UNCHANGED side_vars

\* the behaviours in which no event stream hangs, and the event loop runs
\* a task that is ready.  A stream that is waited on and yields no final
\* event and does not raise comes to its end; as every outcome of a stream
\* moves the request on, this is the same as weak fairness of StreamStepIn
Responsive ==
    \A r \in Users :
        /\ WF_vars(~Returning /\ OrchEnd(r) /\ UNCHANGED side_vars)
        /\ WF_vars(~Returning /\ McpEnd(r) /\ UNCHANGED side_vars)
        /\ WF_vars(~Returning /\ RagEnd(r) /\ UNCHANGED side_vars)
        /\ WF_vars(~Returning /\ SynthEnd(r) /\ UNCHANGED side_vars)
        /\ WF_vars(Return(r) /\ UNCHANGED side_vars)

LiveSpec == Init /\ [][LiveNext]_vars /\ Responsive

\* a single request, every intent text up to MaxIntentLen
NextSeq ==
    \/ Return("u1") /\ UNCHANGED side_vars
    \/ ~Returning /\ Start("u1", 1) /\ UNCHANGED side_vars
    \/ ~Returning /\ OrchFinalIn("u1", AllIntents) /\ UNCHANGED side_vars
    \/ ~Returning /\ OrchRaise("u1") /\ UNCHANGED side_vars
    \/ ~Returning /\ OrchFinalNoText("u1") /\ UNCHANGED side_vars
    \/ ~Returning /\ OrchEnd("u1") /\ UNCHANGED side_vars
    \/ ~Returning /\ McpFinal("u1") /\ UNCHANGED side_vars
    \/ ~Returning /\ McpEnd("u1") /\ UNCHANGED side_vars
    \/ ~Returning /\ McpRaise("u1") /\ UNCHANGED side_vars
    \/ ~Returning /\ RagFinal("u1") /\ UNCHANGED side_vars
    \/ ~Returning /\ RagEnd("u1") /\ UNCHANGED side_vars
    \/ ~Returning /\ RagRaise("u1") /\ UNCHANGED side_vars
    \/ ~Returning /\ SynthFinal("u1") /\ UNCHANGED side_vars
    \/ ~Returning /\ SynthEnd("u1") /\ UNCHANGED side_vars
    \/ ~Returning /\ SynthRaise("u1") /\ UNCHANGED side_vars

SeqSpec == Init /\ [][NextSeq]_vars

\* ------------------------------------------- tools of src/mcp_server.py
\* what a call of a tool hands back: a str (its text in chunks), a tuple,
\* or an exception that leaves the function
Str(parts) == [type |-> "str", parts |-> parts]
Tuple(items) == [type |-> "tuple", items |-> items]
Raised(exc, msg) == [type |-> "raise", exc |-> exc, msg |-> msg]

\* the trailing  except Exception as e: return f"Error: {str(e)}"
except_Exception(outcome) ==
    IF outcome.type = "raise" THEN Str(<<"Error: ", outcome.msg>>) ELSE outcome

MaxExprLen == 4

Digits == {"0", "1", "2", "3", "4", "5", "6", "7", "8", "9"}

\* the characters expressions are drawn from: two digits, two operators,
\* the decimal point, a space, a tab and one character outside every list
ExprChars == {"0", "2", "+", "/", ".", " ", "\t", "_"}

RECURSIVE ExprsUpTo(_)
ExprsUpTo(n) ==
    IF n = 0 THEN {<<>>}
    ELSE LET S == ExprsUpTo(n - 1)
         IN S \cup {Append(t, c) : t \in {x \in S : Len(x) = n - 1}, c \in ExprChars}

\* "2 + 2", "1/0" and "__import__('os')"
SampleExpressions ==
    { <<"2", " ", "+", " ", "2">>,
      <<"1", "/", "0">>,
      <<"_", "_", "i", "m", "p", "o", "r", "t", "_", "_", "(", "'", "o", "s", "'", ")">> }

Expressions == ExprsUpTo(MaxExprLen) \cup SampleExpressions

\* ---- eval(expression, {"__builtins__": {}}, {}) on the expressions of
\* ---- the model: numbers, unary and binary +, / and //
IntVal(n) == [type |-> "int", n |-> n]
\* a float; its digits are not followed
FloatVal == [type |-> "float"]

DigitValue(c) == CHOOSE i \in 0..9 : ToString(i) = c

RECURSIVE int_of(_)
int_of(text) ==
    IF text = <<>> THEN 0
    ELSE 10 * int_of(SubSeq(text, 1, Len(text) - 1)) + DigitValue(text[Len(text)])

\* end of the run of digits and points that starts at i
RECURSIVE number_end(_, _)
number_end(e, i) ==
    IF i < Len(e) /\ e[i + 1] \in Digits \cup {"."} THEN number_end(e, i + 1) ELSE i

\* the tokens of e from position i on; blanks and tabs separate tokens
RECURSIVE tokenize(_, _)
tokenize(e, i) ==
    IF i > Len(e) THEN <<>>
    ELSE CASE e[i] \in {" ", "\t"} -> tokenize(e, i + 1)
           [] e[i] \in Digits \cup {"."} ->
                  LET j == number_end(e, i)
                  IN <<[t |-> "num", text |-> SubSeq(e, i, j)]>> \o tokenize(e, j + 1)
           [] e[i] = "/" /\ i < Len(e) /\ e[i + 1] = "/" ->
                  <<[t |-> "//", text |-> <<>>]>> \o tokenize(e, i + 2)
           [] e[i] \in {"+", "/"} ->
                  <<[t |-> e[i], text |-> <<>>]>> \o tokenize(e, i + 1)
           [] OTHER -> <<[t |-> "other", text |-> <<e[i]>>]>> \o tokenize(e, i + 1)

Points(text) == Cardinality({i \in DOMAIN text : text[i] = "."})

AllZero(text) == \A i \in DOMAIN text : text[i] \in {"0", "."}

\* a decimal integer (no leading zero unless it is all zeros) or a
\* decimal float with one point and at least one digit
valid_number(text) ==
    \/ Points(text) = 0 /\ (text[1] # "0" \/ AllZero(text))
    \/ Points(text) = 1 /\ Len(text) > 1

number_value(text) == IF Points(text) = 0 THEN IntVal(int_of(text)) ELSE FloatVal

\* the grammar without parentheses is regular: an operand is any number
\* of unary + and then a number, operands are joined by +, / or //.
\* well_formed(toks, i, operand) reads toks from i on, operand telling
\* whether an operand is due
RECURSIVE well_formed(_, _, _)
well_formed(toks, i, operand) ==
    IF i > Len(toks) THEN ~operand
    ELSE IF operand
         THEN CASE toks[i].t = "num" -> valid_number(toks[i].text) /\ well_formed(toks, i + 1, FALSE)
                [] toks[i].t = "+"   -> well_formed(toks, i + 1, TRUE)
                [] OTHER             -> FALSE
         ELSE toks[i].t \in {"+", "/", "//"} /\ well_formed(toks, i + 1, TRUE)

py_add(a, b) ==
    IF a.type = "int" /\ b.type = "int" THEN IntVal(a.n + b.n) ELSE FloatVal

py_floordiv(a, b) ==
    IF a.type = "int" /\ b.type = "int" THEN IntVal(a.n \div b.n) ELSE FloatVal

\* the value of a well-formed token list whose divisors are not zero:
\* total is the sum of the finished terms, term the running quotient,
\* op the binary operator that waits for its right operand
RECURSIVE evaluate(_, _, _, _, _)
evaluate(toks, i, total, term, op) ==
    IF i > Len(toks) THEN py_add(total, term)
    ELSE IF toks[i].t = "num"
         THEN LET v == number_value(toks[i].text)
              IN CASE op = "+"  -> evaluate(toks, i + 1, py_add(total, term), v, "")
                   [] op = "/"  -> evaluate(toks, i + 1, total, FloatVal, "")
                   [] op = "//" -> evaluate(toks, i + 1, total, py_floordiv(term, v), "")
                   [] OTHER     -> evaluate(toks, i + 1, total, v, "")
         ELSE IF op = "" THEN evaluate(toks, i + 1, total, term, toks[i].t)
              ELSE evaluate(toks, i + 1, total, term, op)

\* a divisor is the number that follows / or //, unary + in between
RECURSIVE zero_divisor(_, _, _)
zero_divisor(toks, i, dividing) ==
    IF i > Len(toks) THEN FALSE
    ELSE CASE toks[i].t = "num" ->
                  \/ dividing /\ AllZero(toks[i].text)
                  \/ zero_divisor(toks, i + 1, FALSE)
           [] toks[i].t \in {"/", "//"} -> zero_divisor(toks, i + 1, TRUE)
           [] OTHER -> zero_divisor(toks, i + 1, dividing)

\* eval: the text is compiled first, so a syntax error wins over a
\* division by zero
eval(expression) ==
    LET toks == tokenize(expression, 1)
    IN IF ~well_formed(toks, 1, TRUE) THEN Raised("SyntaxError", "invalid syntax")
       ELSE IF zero_divisor(toks, 1, FALSE) THEN Raised("ZeroDivisionError", "division by zero")
       ELSE [type |-> "value", value |-> evaluate(toks, 1, IntVal(0), IntVal(0), "")]

\* f"{result}"
str(v) == IF v.type = "int" THEN ToString(v.n) ELSE "<float>"

INVALID_CHARACTERS == "Error: Expression contains invalid characters"
DIVISION_BY_ZERO == "Error: Division by zero"
DIVISION_BY_ZERO_NOT_ALLOWED == "Error: Division by zero is not allowed"

\* an allowlist that lets every character through
allowed_chars_everything == Digits \cup ExprChars \cup {"+", "-", "*", "/", "(", ")", ".", "%", " "}

\* set('0123456789+-*/().%** ')
allowed_chars == Digits \cup {"+", "-", "*", "/", "(", ")", ".", "%", " "}

\* calculate without its two except clauses
calculate_uncaught(expression) ==
    IF ~ \A i \in DOMAIN expression : expression[i] \in allowed_chars
    THEN [ret |-> Str(<<INVALID_CHARACTERS>>), evaluated |-> FALSE, raised |-> "-"]
    ELSE LET r == eval(expression)
         IN IF r.type = "raise"
            THEN [ret |-> r, evaluated |-> TRUE, raised |-> r.exc]
            ELSE [ret |-> Str(expression \o <<" = ", str(r.value)>>),
                  evaluated |-> TRUE, raised |-> "-"]

\* calculate: ret is what the tool returns, evaluated whether eval was
\* called, raised the exception eval left with
calculate(expression) ==
    IF ~ \A i \in DOMAIN expression : expression[i] \in allowed_chars
    THEN [ret |-> Str(<<INVALID_CHARACTERS>>), evaluated |-> FALSE, raised |-> "-"]
    ELSE LET r == eval(expression)
         IN IF r.type = "raise"
            THEN [ret |-> IF r.exc = "ZeroDivisionError" THEN Str(<<DIVISION_BY_ZERO>>)
                          ELSE except_Exception(r),
                  evaluated |-> TRUE, raised |-> r.exc]
            ELSE [ret |-> Str(expression \o <<" = ", str(r.value)>>),
                  evaluated |-> TRUE, raised |-> "-"]

\* the float arguments of the arithmetic tools, and lists of them
Numbers == {0, 1, 2}
NumberLists == {<<>>, <<1>>, <<1, 2>>, <<2, 2>>}

\* repr of the float n / d for a divisor d of 1 or 2 (the quotients of the
\* model's numbers are whole or end in .5)
float_repr(n, d) ==
    ToString(n \div d) \o "." \o (IF n % d = 0 THEN "0" ELSE "5")

divide(a, b) ==
    IF b = 0 THEN Str(<<DIVISION_BY_ZERO_NOT_ALLOWED>>)
    ELSE Str(<<float_repr(a, 1), " ÷ ", float_repr(b, 1), " = ", float_repr(a, b)>>)

\* a behaviour of the tool server follows one call
Calculate ==
    /\ call = NoCall
    /\ \E expression \in Expressions :
          LET c == calculate(expression)
          IN call' = [tool |-> "calculate", args |-> <<expression>>, ret |-> c.ret,
                      evaluated |-> c.evaluated, raised |-> c.raised]
    /\ UNCHANGED beside_call

Divide ==
    /\ call = NoCall
    /\ \E a \in Numbers, b \in Numbers :
          call' = [tool |-> "divide", args |-> <<a, b>>, ret |-> divide(a, b),
                   evaluated |-> FALSE, raised |-> "-"]
    /\ UNCHANGED beside_call

\* ---- the data tools; d is what the mongo_db operation hands back
CustomerIds == {"CUST2001"}

\* a document, None, lists, an error text, an async cursor with or
\* without documents, or an exception
DataResults ==
    { [type |-> "dict", len |-> 1], [type |-> "NoneType", len |-> 0],
      [type |-> "list", len |-> 0], [type |-> "list", len |-> 2],
      [type |-> "str", len |-> 1], [type |-> "str", len |-> 0],
      [type |-> "cursor", len |-> 0], [type |-> "cursor", len |-> 1],
      Raised("Exception", "boom") }

\* truth value of a result in  if customer:
py_bool(d) == d.type # "NoneType" /\ d.len > 0

\* f"{customer}"
py_format(d) == "<" \o d.type \o " of " \o ToString(d.len) \o ">"

\* results = [];  async for doc in cursor: results.append(doc)
collect(d) ==
    IF d.type = "raise" THEN d
    ELSE IF d.type # "cursor"
         THEN Raised("TypeError", "'async for' requires an object with __aiter__ method")
         ELSE [type |-> "list", len |-> d.len]

\* sum(acc.get('balance', 0) for acc in accounts), then len(accounts)
sum_of_field(d) ==
    CASE d.type = "raise" -> d
      [] d.type \in {"NoneType", "cursor"} -> Raised("TypeError", "object is not iterable")
      [] d.type \in {"str", "dict"} /\ d.len > 0 ->
             Raised("AttributeError", "'str' object has no attribute 'get'")
      [] OTHER -> d

found_or_not(d, found, missing) ==
    except_Exception(IF d.type = "raise" THEN d
                     ELSE IF py_bool(d) THEN Str(<<found, py_format(d)>>)
                     ELSE Str(missing))

get_customer(customer_id, d) ==
    found_or_not(d, "Customer found: ", <<"Customer ", customer_id, " not found">>)

get_account(account_id, d) ==
    found_or_not(d, "Account found: ", <<"Account ", account_id, " not found">>)

get_transactions_by_customer(customer_id, d) ==
    found_or_not(d, "Transactions for customer " \o customer_id \o ": ",
                 <<"No transactions found for customer ", customer_id>>)

get_transactions_by_filters(customer_id, d) ==
    found_or_not(collect(d), "Filtered transactions: ",
                 <<"No transactions found matching the given filters.">>)

get_customers_by_filters(d) ==
    found_or_not(collect(d), "Filtered customers: ",
                 <<"No customers found matching the given filters.">>)

get_customer_accounts(customer_id, d) ==
    LET accounts == sum_of_field(d)
    IN except_Exception(
           IF accounts.type = "raise" THEN accounts
           ELSE Str(<<"Customer ", customer_id, " has ", ToString(accounts.len),
                      " account(s) with total balance ", py_format(accounts)>>))

get_customer_transactions_with_date_time(customer_id, d) ==
    LET transactions == sum_of_field(d)
    IN except_Exception(
           IF transactions.type = "raise" THEN transactions
           ELSE Str(<<"Found ", ToString(transactions.len), " transactions for account ",
                      customer_id, " with total amount ", py_format(transactions)>>))

get_all_transactions_summary_for_customer(customer_id, d) ==
    except_Exception(
        IF d.type = "raise" THEN d
        ELSE Str(<<"Transaction summary for account ", customer_id, ": ", py_format(d)>>))

\* return current_date, current_time
get_current_date_time == Tuple(<<"%Y-%m-%d", "%H:%M:%S">>)

add(a, b) == Str(<<float_repr(a, 1), " + ", float_repr(b, 1), " = ", float_repr(a + b, 1)>>)

subtract(a, b) == Str(<<float_repr(a, 1), " - ", float_repr(b, 1), " = ", float_repr(a - b, 1)>>)

multiply(a, b) == Str(<<float_repr(a, 1), " × ", float_repr(b, 1), " = ", float_repr(a * b, 1)>>)

RECURSIVE sum(_)
sum(numbers) == IF numbers = <<>> THEN 0 ELSE Head(numbers) + sum(Tail(numbers))

\* sum([]) is the int 0, the sum of floats a float
sum_numbers(numbers) ==
    Str(<<"Sum of ", ToString(Len(numbers)), " numbers = ",
          IF numbers = <<>> THEN "0" ELSE float_repr(sum(numbers), 1)>>)

average(numbers) ==
    IF numbers = <<>> THEN Str(<<"Error: Cannot calculate average of empty list">>)
    ELSE Str(<<"Average of ", ToString(Len(numbers)), " numbers = ",
               float_repr(sum(numbers), Len(numbers))>>)

\* the record of a call of a tool that has no evaluator
Returned(tool, args, ret) ==
    [tool |-> tool, args |-> args, ret |-> ret, evaluated |-> FALSE, raised |-> "-"]

GetCustomer ==
    /\ call = NoCall
    /\ \E id \in CustomerIds, d \in DataResults :
          call' = Returned("get_customer", <<id>>, get_customer(id, d))
    /\ UNCHANGED beside_call

GetAccount ==
    /\ call = NoCall
    /\ \E id \in CustomerIds, d \in DataResults :
          call' = Returned("get_account", <<id>>, get_account(id, d))
    /\ UNCHANGED beside_call

GetTransactionsByCustomer ==
    /\ call = NoCall
    /\ \E id \in CustomerIds, d \in DataResults :
          call' = Returned("get_transactions_by_customer", <<id>>, get_transactions_by_customer(id, d))
    /\ UNCHANGED beside_call

GetTransactionsByFilters ==
    /\ call = NoCall
    /\ \E id \in CustomerIds, d \in DataResults :
          call' = Returned("get_transactions_by_filters", <<id>>, get_transactions_by_filters(id, d))
    /\ UNCHANGED beside_call

GetCustomerAccounts ==
    /\ call = NoCall
    /\ \E id \in CustomerIds, d \in DataResults :
          call' = Returned("get_customer_accounts", <<id>>, get_customer_accounts(id, d))
    /\ UNCHANGED beside_call

GetCustomerTransactionsWithDateTime ==
    /\ call = NoCall
    /\ \E id \in CustomerIds, d \in DataResults :
          call' = Returned("get_customer_transactions_with_date_time", <<id>>, get_customer_transactions_with_date_time(id, d))
    /\ UNCHANGED beside_call

GetAllTransactionsSummaryForCustomer ==
    /\ call = NoCall
    /\ \E id \in CustomerIds, d \in DataResults :
          call' = Returned("get_all_transactions_summary_for_customer", <<id>>, get_all_transactions_summary_for_customer(id, d))
    /\ UNCHANGED beside_call

GetCustomersByFilters ==
    /\ call = NoCall
    /\ \E d \in DataResults :
          call' = Returned("get_customers_by_filters", <<>>, get_customers_by_filters(d))
    /\ UNCHANGED beside_call

GetCurrentDateTime ==
    /\ call = NoCall
    /\ call' = Returned("get_current_date_time", <<>>, get_current_date_time)
    /\ UNCHANGED beside_call

Add ==
    /\ call = NoCall
    /\ \E a \in Numbers, b \in Numbers :
          call' = Returned("add", <<a, b>>, add(a, b))
    /\ UNCHANGED beside_call

Subtract ==
    /\ call = NoCall
    /\ \E a \in Numbers, b \in Numbers :
          call' = Returned("subtract", <<a, b>>, subtract(a, b))
    /\ UNCHANGED beside_call

Multiply ==
    /\ call = NoCall
    /\ \E a \in Numbers, b \in Numbers :
          call' = Returned("multiply", <<a, b>>, multiply(a, b))
    /\ UNCHANGED beside_call

SumNumbers ==
    /\ call = NoCall
    /\ \E numbers \in NumberLists :
          call' = Returned("sum_numbers", <<numbers>>, sum_numbers(numbers))
    /\ UNCHANGED beside_call

Average ==
    /\ call = NoCall
    /\ \E numbers \in NumberLists :
          call' = Returned("average", <<numbers>>, average(numbers))
    /\ UNCHANGED beside_call

\* the agent calls the tools of the server, one call at a time
ToolNext ==
    \/ Calculate
    \/ Divide
    \/ GetCustomer
    \/ GetAccount
    \/ GetTransactionsByCustomer
    \/ GetTransactionsByFilters
    \/ GetCustomerAccounts
    \/ GetCustomerTransactionsWithDateTime
    \/ GetAllTransactionsSummaryForCustomer
    \/ GetCustomersByFilters
    \/ GetCurrentDateTime
    \/ Add
    \/ Subtract
    \/ Multiply
    \/ SumNumbers
    \/ Average

ToolSpec == Init /\ [][ToolNext]_vars

\* ------------------------- the prompt provider (src/prompts.py) at start-up
\* the sections of prompts.yaml the program reads: the instruction prompt
\* of each agent, agent_config.intent_types and its three word lists
PromptKeys == <<"orchestrator_agent", "mcp_tools_agent", "rag_agent", "final_response_agent">>
CategoryKeys == <<"transaction", "product", "hybrid">>
RequiredKeys ==
    {PromptKeys[i] : i \in DOMAIN PromptKeys} \cup {"intent_types"}
    \cup {CategoryKeys[i] : i \in DOMAIN CategoryKeys}

\* a configuration source: no file at all, or a file with some of the keys
ConfigSources ==
    {[exists |-> FALSE, keys |-> {}]}
    \cup {[exists |-> TRUE, keys |-> K] :
             K \in {K \in SUBSET RequiredKeys :
                       (\E i \in DOMAIN CategoryKeys : CategoryKeys[i] \in K) => "intent_types" \in K}}

\* the first of the keys, in the order they are read, that is not in K
RECURSIVE first_missing(_, _, _)
first_missing(keys, i, K) ==
    IF i > Len(keys) THEN "-"
    ELSE IF keys[i] \notin K THEN keys[i]
    ELSE first_missing(keys, i + 1, K)

\* PromptConfig._load_config: the only test is that the file can be opened
_load_config(source) ==
    IF source.exists THEN "-" ELSE "FileNotFoundError"

\* MultiAgentOrchestrator.__init__: PromptConfig(), then the four
\* _create_*_agent calls, each reading its instruction prompt
MultiAgentOrchestrator ==
    /\ provider.pc = "off"
    /\ \E source \in ConfigSources :
          LET missing == first_missing(PromptKeys, 1, source.keys)
          IN provider' =
                 IF _load_config(source) # "-"
                 THEN [pc |-> "failed", keys |-> {}, error |-> _load_config(source)]
                 ELSE IF missing # "-"
                 THEN [pc |-> "failed", keys |-> source.keys, error |-> "KeyError: " \o missing]
                 ELSE [pc |-> "ready", keys |-> source.keys, error |-> "-"]
    /\ UNCHANGED beside_provider

\* the key the if/elif chain of lines 212-225 fails on for a word set, "-"
\* if it gets through: a word list is read only when its test is reached
intent_types_lookup(K, words) ==
    IF "intent_types" \notin K THEN "intent_types"
    ELSE IF "transaction" \notin K THEN "transaction"
    ELSE IF matches("transaction", words) THEN "-"
    ELSE IF "product" \notin K THEN "product"
    ELSE IF matches("product", words) THEN "-"
    ELSE IF "hybrid" \notin K THEN "hybrid"
    ELSE "-"

\* a request on the constructed orchestrator: after the orchestrator agent
\* has run, lines 212-225 read the word lists; a KeyError is caught by the
\* handler of lines 255-261 and becomes the failure of this request
orchestrate ==
    /\ provider.pc = "ready"
    /\ \E intent \in SampleIntents :
          LET words == set(split(remove_punctuation(strip(intent))))
              missing == intent_types_lookup(provider.keys, words)
          IN provider' = [provider EXCEPT
                             !.pc = "served",
                             !.error = IF missing = "-" THEN "-" ELSE "KeyError: " \o missing]
    /\ UNCHANGED beside_provider

ConfigNext ==
    \/ MultiAgentOrchestrator
    \/ orchestrate

ConfigSpec == Init /\ [][ConfigNext]_vars

\* --------------------------- the tool loader (src/mcp_tools.py), threaded
\* mcp._mcp_thread is the number of the Thread object the global refers to
\* (0 for None); mcp.threads[i] is the i-th Thread object created, with
\* what get_tools_async gave inside it; mcp._mcp_tools_ready is the Event: 0 when clear, otherwise the
\* number of the thread whose set() it holds.  Each caller is an operating
\* system thread inside get_tools_sync, one statement per step.
MaxLoads == 2

MCPToolset(i) == [type |-> "MCPToolset", load |-> i]
ConnectError(i) == [type |-> "raise", exc |-> "Exception", load |-> i]
RuntimeError == [type |-> "raise", exc |-> "RuntimeError", load |-> 0]

is_alive(i) == mcp.threads[i].state \in {"running", "finishing"}

CallerAt(c, pc) == mcp.callers[c].pc = pc

\* a thread enters get_tools_sync
get_tools_sync(c) ==
    /\ CallerAt(c, "out") \/ CallerAt(c, "done")
    /\ Len(mcp.threads) < MaxLoads
    /\ mcp' = [mcp EXCEPT !.callers[c] = [pc |-> "test", waited |-> 0, outcome |-> PyNone]]
    /\ UNCHANGED beside_mcp

\* if _mcp_thread is None or not _mcp_thread.is_alive():
TestThread(c) ==
    /\ CallerAt(c, "test")
    /\ mcp' = [mcp EXCEPT !.callers[c].pc =
                  IF mcp._mcp_thread = 0 \/ ~is_alive(mcp._mcp_thread)
                  THEN "clear" ELSE "wait"]
    /\ UNCHANGED beside_mcp

\* _mcp_tools_ready.clear()
ClearReady(c) ==
    /\ CallerAt(c, "clear")
    /\ mcp' = [mcp EXCEPT !._mcp_tools_ready = 0, !.callers[c].pc = "create"]
    /\ UNCHANGED beside_mcp

\* _mcp_thread = threading.Thread(target=run_async_in_thread, daemon=True)
CreateThread(c) ==
    /\ CallerAt(c, "create")
    /\ mcp' = [mcp EXCEPT !.threads = Append(@, [state |-> "new", outcome |-> PyNone]),
                          !._mcp_thread = Len(mcp.threads) + 1,
                          !.callers[c].pc = "start"]
    /\ UNCHANGED beside_mcp

\* _mcp_thread.start(): a Thread object can be started once only
StartThread(c) ==
    /\ CallerAt(c, "start")
    /\ IF mcp.threads[mcp._mcp_thread].state = "new"
       THEN mcp' = [mcp EXCEPT !.threads[mcp._mcp_thread].state = "running",
                               !.callers[c].pc = "wait"]
       ELSE mcp' = [mcp EXCEPT !.callers[c].pc = "done",
                               !.callers[c].outcome = RuntimeError]
    /\ UNCHANGED beside_mcp

\* run_async_in_thread: get_tools_async returned the toolset
LoadSucceeds(i) ==
    /\ i \in DOMAIN mcp.threads
    /\ mcp.threads[i].state = "running"
    /\ mcp' = [mcp EXCEPT !._mcp_tools_result = MCPToolset(i),
                          !.threads[i] = [state |-> "finishing", outcome |-> MCPToolset(i)]]
    /\ UNCHANGED beside_mcp

\* run_async_in_thread: get_tools_async raised
LoadFails(i) ==
    /\ i \in DOMAIN mcp.threads
    /\ mcp.threads[i].state = "running"
    /\ mcp' = [mcp EXCEPT !._mcp_tools_error = ConnectError(i),
                          !.threads[i] = [state |-> "finishing", outcome |-> ConnectError(i)]]
    /\ UNCHANGED beside_mcp

\* finally: _mcp_tools_ready.set(), and the thread ends
LoaderFinally(i) ==
    /\ i \in DOMAIN mcp.threads
    /\ mcp.threads[i].state = "finishing"
    /\ mcp' = [mcp EXCEPT !._mcp_tools_ready = i, !.threads[i].state = "dead"]
    /\ UNCHANGED beside_mcp

\* _mcp_tools_ready.wait()
WaitReady(c) ==
    /\ CallerAt(c, "wait")
    /\ mcp._mcp_tools_ready # 0
    /\ mcp' = [mcp EXCEPT !.callers[c].pc = "check",
                          !.callers[c].waited = mcp._mcp_tools_ready]
    /\ UNCHANGED beside_mcp

\* if _mcp_tools_error: raise _mcp_tools_error / return _mcp_tools_result
ReturnTools(c) ==
    /\ CallerAt(c, "check")
    /\ mcp' = [mcp EXCEPT !.callers[c].pc = "done",
                          !.callers[c].outcome =
                              IF mcp._mcp_tools_error # PyNone
                              THEN mcp._mcp_tools_error
                              ELSE mcp._mcp_tools_result]
    /\ UNCHANGED beside_mcp

McpToolsNext ==
    \/ \E c \in Callers : get_tools_sync(c)
    \/ \E c \in Callers : TestThread(c)
    \/ \E c \in Callers : ClearReady(c)
    \/ \E c \in Callers : CreateThread(c)
    \/ \E c \in Callers : StartThread(c)
    \/ \E i \in 1..MaxLoads : LoadSucceeds(i)
    \/ \E i \in 1..MaxLoads : LoadFails(i)
    \/ \E i \in 1..MaxLoads : LoaderFinally(i)
    \/ \E c \in Callers : WaitReady(c)
    \/ \E c \in Callers : ReturnTools(c)

McpToolsSpec == Init /\ [][McpToolsNext]_vars

\* ------------------- the lazy construction in BankingAgent.orchestrate
\* banking.multi_agent is the number of the MultiAgentOrchestrator that
\* self.multi_agent refers to (0 for None); banking.stores[i] is the set of
\* users with a thread in the session store of the i-th one constructed.
\* Chat requests are coroutines of one event loop: they interleave at the
\* awaits only.
MaxChats == 4

\* if self.multi_agent is None: ... up to the first await
BankingAgent_orchestrate(u) ==
    /\ banking.at[u].pc \in {"out", "done"}
    /\ banking.chats < MaxChats
    /\ banking' = [banking EXCEPT
           !.chats = @ + 1,
           !.at[u] = IF banking.multi_agent = 0
                     THEN [pc |-> "tools", on |-> 0, raised |-> FALSE]
                     ELSE [pc |-> "run", on |-> banking.multi_agent, raised |-> FALSE]]
    /\ UNCHANGED beside_banking

\* self.mcp_toolset = await self.mcp_tools.get_tools_async()
tools_first(u) ==
    /\ banking.at[u].pc = "tools"
    /\ banking' = [banking EXCEPT !.at[u].pc = "filtered"]
    /\ UNCHANGED beside_banking

\* the second await of tools() returns: self.multi_agent =
\* MultiAgentOrchestrator(...), and the request goes on with that object
tools_second(u) ==
    /\ banking.at[u].pc = "filtered"
    /\ LET new == Len(banking.stores) + 1
       IN banking' = [banking EXCEPT
              !.stores = Append(@, {}),
              !.multi_agent = new,
              !.at[u] = [pc |-> "run", on |-> new, raised |-> FALSE]]
    /\ UNCHANGED beside_banking

\* get_tools_async raises (MCP server unreachable): the request fails and
\* self.multi_agent stays as it was
tools_raise(u) ==
    /\ banking.at[u].pc \in {"tools", "filtered"}
    /\ banking' = [banking EXCEPT !.at[u] = [pc |-> "done", on |-> 0, raised |-> TRUE]]
    /\ UNCHANGED beside_banking

\* results = await self.multi_agent.orchestrate(...): the user's threads
\* are in the stores of the orchestrator the call was made on
multi_agent_orchestrate(u) ==
    /\ banking.at[u].pc = "run"
    /\ banking' = [banking EXCEPT
           !.stores[banking.at[u].on] = @ \cup {u},
           !.at[u].pc = "done"]
    /\ UNCHANGED beside_banking

BankingNext ==
    \/ \E u \in Users : BankingAgent_orchestrate(u)
    \/ \E u \in Users : tools_first(u)
    \/ \E u \in Users : tools_second(u)
    \/ \E u \in Users : tools_raise(u)
    \/ \E u \in Users : multi_agent_orchestrate(u)

BankingSpec == Init /\ [][BankingNext]_vars

\* ------------------------- the database client (src/mongo_client.py)
\* mongo.client is "AsyncMongoClient", "closed" after close(), or "None";
\* mongo.reachable is the database server, which comes and goes by itself;
\* mongo.last is what the last operation gave its caller.
MaxOps == 5

MongoReturn(op, value) == [op |-> op, type |-> "return", value |-> value]
MongoRaise(op, exc) == [op |-> op, type |-> "raise", value |-> exc]

\* what  await self.client.aconnect(); await self.client.server_info()
\* raises on this client, "-" when both return
aconnect_raises(m) ==
    IF m.client = "None" THEN "AttributeError"
    ELSE IF m.client = "closed" THEN "InvalidOperation"
    ELSE IF ~m.reachable THEN "ServerSelectionTimeoutError"
    ELSE "-"

\* connect(): the client after it, and the exception it re-raises
connect(m) ==
    IF m._is_connected /\ m.client # "None" THEN [m |-> m, raised |-> "-"]
    ELSE LET exc == aconnect_raises(m)
         IN IF exc = "-"
            THEN [m |-> [m EXCEPT !.db = "Database", !._is_connected = TRUE],
                  raised |-> "-"]
            ELSE [m |-> [m EXCEPT !.client = "None", !.db = "None",
                                  !._is_connected = FALSE],
                  raised |-> exc]

_ensure_connected(m) ==
    IF ~m._is_connected \/ m.client = "None" THEN connect(m)
    ELSE [m |-> m, raised |-> "-"]

\* the query of a data operation on a connected client raises when the
\* client was closed or the server is gone
query_raises(m) == m.client = "closed" \/ ~m.reachable

\* a data operation: _ensure_connected outside the try, the query inside
data_operation(m, op, found, on_error) ==
    LET c == _ensure_connected(m)
        outcome == IF c.raised # "-" THEN MongoRaise(op, c.raised)
                   ELSE IF query_raises(c.m) THEN MongoReturn(op, on_error)
                   ELSE MongoReturn(op, found)
    IN [c.m EXCEPT !.ops = @ + 1, !.last = outcome]

mongo_get_customer_by_id ==
    /\ mongo.ops < MaxOps
    /\ mongo' = data_operation(mongo, "get_customer_by_id", "customer", "Error: ")
    /\ UNCHANGED beside_mongo

mongo_search_customers ==
    /\ mongo.ops < MaxOps
    /\ mongo' = data_operation(mongo, "search_customers", "customers", "[]")
    /\ UNCHANGED beside_mongo

\* connect() called by itself
mongo_connect ==
    /\ mongo.ops < MaxOps
    /\ LET c == connect(mongo)
       IN mongo' = [c.m EXCEPT !.ops = @ + 1,
                      !.last = IF c.raised # "-" THEN MongoRaise("connect", c.raised)
                               ELSE MongoReturn("connect", "None")]
    /\ UNCHANGED beside_mongo

\* disconnect(): closes the client and leaves _is_connected as it is
mongo_disconnect ==
    /\ mongo.ops < MaxOps
    /\ mongo' = [mongo EXCEPT !.client = IF @ = "None" THEN @ ELSE "closed",
                              !.ops = @ + 1,
                              !.last = MongoReturn("disconnect", "None")]
    /\ UNCHANGED beside_mongo

\* the database server goes down or comes back
ServerChanges ==
    /\ mongo' = [mongo EXCEPT !.reachable = ~@]
    /\ UNCHANGED beside_mongo

MongoNext ==
    \/ mongo_get_customer_by_id
    \/ mongo_search_customers
    \/ mongo_connect
    \/ mongo_disconnect
    \/ ServerChanges

MongoSpec == Init /\ [][MongoNext]_vars

\* ----------------- the vector store (src/qdrant_vector_database.py)
\* qdrant.points is the list of ids handed to the collection, in order;
\* qdrant.cache_ids_file is the pickled set on disk.
MaxDocs == 2
MaxAdds == 2

\* metadata["_id"] of a chunk; chunks of one product share it, a chunk
\* without it gives None
MongoIds == {"p1", "None"}

Document(mongo_id) == [metadata |-> [_id |-> mongo_id]]

DocumentsUpTo(n) ==
    UNION { [1..k -> {Document(m) : m \in MongoIds}] : k \in 0..n }

\* str(uuid.uuid5(NAMESPACE_DNS, f"{mongo_id}_chunk_{chunk_index}")): one
\* id per formatted string
mongo_id_to_uuid(mongo_id, chunk_index) ==
    <<mongo_id, "_chunk_", ToString(chunk_index)>>

\* the id of every document of the list, by enumerate()
pids(documents) ==
    [i \in DOMAIN documents |->
        mongo_id_to_uuid(documents[i].metadata._id, i - 1)]

\* a loop that does not look into the cache
ids_to_add_unfiltered(cached_ids, documents) ==
    SelectSeq(pids(documents), LAMBDA pid : truthy(pid))

\* the loop of add_documents: the ids of the documents to add
ids_to_add(cached_ids, documents) ==
    SelectSeq(pids(documents), LAMBDA pid : truthy(pid) /\ pid \notin cached_ids)

\* _update_cache: the set grows; the write to disk may fail, which is
\* logged and swallowed
_update_cache(q, new_ids, written) ==
    LET cached == q.cached_ids \cup set(new_ids)
    IN [q EXCEPT !.cached_ids = cached,
                 !.cache_ids_file = IF written THEN cached ELSE @]

\* add_documents(documents), the embedding and upsert succeeding
add_documents(documents) ==
    /\ qdrant.calls < MaxAdds
    /\ LET ids == ids_to_add(qdrant.cached_ids, documents)
           q == [qdrant EXCEPT !.calls = @ + 1,
                     !.last = [documents |-> documents, ids_to_add |-> ids,
                               raised |-> FALSE]]
       IN IF ids # <<>>
          THEN \E written \in BOOLEAN :
                  qdrant' = _update_cache([q EXCEPT !.points = @ \o ids], ids, written)
          ELSE qdrant' = q
    /\ UNCHANGED beside_qdrant

\* add_documents(documents) with self.vectorstore.add_documents raising:
\* nothing is added, nothing is recorded, the exception goes to the caller
add_documents_raises(documents) ==
    /\ qdrant.calls < MaxAdds
    /\ LET ids == ids_to_add(qdrant.cached_ids, documents)
       IN /\ ids # <<>>
          /\ qdrant' = [qdrant EXCEPT !.calls = @ + 1,
                           !.last = [documents |-> documents, ids_to_add |-> ids,
                                     raised |-> TRUE]]
    /\ UNCHANGED beside_qdrant

QdrantNext ==
    \/ \E documents \in DocumentsUpTo(MaxDocs) : add_documents(documents)
    \/ \E documents \in DocumentsUpTo(MaxDocs) : add_documents_raises(documents)

QdrantSpec == Init /\ [][QdrantNext]_vars

\* ------------------------------------------------------------ vocabulary
Ran(r, agent) == \E i \in DOMAIN req[r].calls : req[r].calls[i] = agent

Done(r) == req[r].pc = "done"

\* the request reached line 211 and split this text into its word set
Routed(r) == req[r].routed_on # Unset

WordsOf(r) == set(split(remove_punctuation(req[r].routed_on)))

Shared(r, c) == Cardinality(WordsOf(r) \cap category_words(c))

Contains(ctx, chunk) == \E i \in DOMAIN ctx : ctx[i] = chunk

\* chunk is in ctx and is directly followed by the text body
ContainsLabelled(ctx, chunk, body) ==
    \E i \in DOMAIN ctx :
        /\ ctx[i] = chunk
        /\ i + Len(body) <= Len(ctx)
        /\ SubSeq(ctx, i + 1, i + Len(body)) = body

\* C1: the categories are tested in the order transaction, product, hybrid
\* and the first whose word set shares more than one word with the intent
\* decides which specialists run: the structured-data agent alone, the
\* retrieval agent alone, both, or none.
RoutePriority ==
    \A r \in Users :
        (Done(r) /\ Routed(r)) =>
            IF Shared(r, "transaction") > 1
            THEN Ran(r, "mcp_tools_agent") /\ ~Ran(r, "rag_agent")
            ELSE IF Shared(r, "product") > 1
            THEN Ran(r, "rag_agent") /\ ~Ran(r, "mcp_tools_agent")
            ELSE IF Shared(r, "hybrid") > 1
            THEN Ran(r, "mcp_tools_agent") /\ Ran(r, "rag_agent")
            ELSE ~Ran(r, "mcp_tools_agent") /\ ~Ran(r, "rag_agent")

\* an intent over the threshold for transaction and for hybrid went to the
\* structured-data agent only
RoutePriorityWitness ==
    \E r \in Users :
        /\ Done(r) /\ Routed(r)
        /\ Shared(r, "transaction") > 1 /\ Shared(r, "hybrid") > 1
        /\ req[r].calls = <<"orchestrator_agent", "mcp_tools_agent", "final_response_agent">>

CategoryOrder == <<"transaction", "product", "hybrid">>

\* C2: a category that shares no word or exactly one distinct word with the
\* intent is never the branch taken; one that shares two or more distinct
\* words is taken unless an earlier category was.
RouteThreshold ==
    \A r \in Users :
        (Done(r) /\ Routed(r)) =>
            \A k \in DOMAIN CategoryOrder :
                /\ req[r].branch = CategoryOrder[k] => Shared(r, CategoryOrder[k]) >= 2
                /\ Shared(r, CategoryOrder[k]) >= 2 =>
                       req[r].branch \in {CategoryOrder[j] : j \in 1..k}

\* the intent repeats one transaction word: two occurrences, one distinct
\* word, and no category was taken
RouteThresholdWitness ==
    \E r \in Users :
        /\ Done(r) /\ Routed(r)
        /\ LET l == split(remove_punctuation(req[r].routed_on))
           IN /\ Len(l) >= 2
              /\ \A i \in DOMAIN l : l[i] \in category_words("transaction")
        /\ Shared(r, "transaction") = 1
        /\ req[r].branch = "none"

\* C3: when the orchestrator invocation raises, the request ends at once
\* with success=false and the error text; no other agent is invoked and the
\* orchestrator is not invoked again.
ClassificationFailureAborts ==
    \A r \in Users :
        req[r].orch = "raised" =>
            /\ Done(r)
            /\ result[r].success = FALSE
            /\ "error" \in DOMAIN result[r]
            /\ req[r].calls = <<"orchestrator_agent">>

SpecialistRaised(r) ==
    "mcp_tools_agent" \in req[r].raised \/ "rag_agent" \in req[r].raised

\* what is common to C4 as stated and as amended
SpecialistFailureHandled(r) ==
    /\ result[r].success = TRUE
    /\ Ran(r, "final_response_agent")
    /\ "mcp_tools_agent" \in req[r].raised =>
           /\ ContainsLabelled(req[r].context, TRANSACTION_SECTION, MCP_ERROR_PREFIX)
           /\ req[r].branch = "hybrid" => Ran(r, "rag_agent")
    /\ "rag_agent" \in req[r].raised =>
           ContainsLabelled(req[r].context, PRODUCT_SECTION, RAG_ERROR_PREFIX)

\* C4 as stated: a specialist that raises is replaced by its error text
\* under its section, the other specialist and the synthesizer still run,
\* and the result is success=true with a non-empty final_response.
SpecialistFailureAbsorbedNonEmpty ==
    \A r \in Users :
        (Done(r) /\ SpecialistRaised(r)) =>
            /\ SpecialistFailureHandled(r)
            /\ truthy(result[r].final_response)

\* C4 as amended: the same, and final_response is whatever the synthesizer
\* stage returned: non-empty unless the synthesizer's own final event
\* carried an empty text or no text.
SpecialistFailureAbsorbed ==
    \A r \in Users :
        (Done(r) /\ SpecialistRaised(r)) =>
            /\ SpecialistFailureHandled(r)
            /\ "final_response" \in DOMAIN result[r]
            /\ ~truthy(result[r].final_response) =>
                   /\ "final_response_agent" \notin req[r].raised
                   /\ result[r].final_response \in {<<>>, NoneVal}

\* on the hybrid branch the structured-data agent raised, the retrieval
\* agent ran all the same, and the request succeeded
SpecialistFailureAbsorbedWitness ==
    \E r \in Users :
        /\ Done(r)
        /\ "mcp_tools_agent" \in req[r].raised
        /\ req[r].branch = "hybrid"
        /\ Ran(r, "rag_agent")
        /\ result[r].success = TRUE
        /\ truthy(result[r].final_response)

\* C5: when the synthesizer invocation raises, the result is success=true
\* and final_response is the fixed apology string.
SynthesisFailureApologizes ==
    \A r \in Users :
        (Done(r) /\ "final_response_agent" \in req[r].raised) =>
            /\ result[r].success = TRUE
            /\ result[r].final_response = APOLOGY

SynthesisFailureApologizesWitness ==
    \E r \in Users :
        /\ Done(r)
        /\ "final_response_agent" \in req[r].raised
        /\ result[r].final_response = APOLOGY

\* C6: a request ends with success=false only when its orchestrator
\* invocation failed; a request whose orchestrator run produced its final
\* text never ends with success=false.
OnlyClassificationFails ==
    \A r \in Users :
        (Done(r) /\ result[r].success = FALSE) => req[r].orch # "final"

\* C7: when the orchestrator run completed and query_intent is absent, the
\* intent is the empty string: no specialist runs, the synthesizer runs and
\* the result is success=true.
AbsentIntentRoutesNone ==
    \A r \in Users :
        (Done(r) /\ req[r].orch = "final" /\ req[r].read_intent = NoneVal) =>
            /\ result[r].success = TRUE
            /\ req[r].calls = <<"orchestrator_agent", "final_response_agent">>

\* C8: every failure result carries success=false, an error text and the
\* request's user_id; every success result carries success=true, intent,
\* final_response and the request's user_id.
ResultShape ==
    \A r \in Users :
        Done(r) =>
            /\ "user_id" \in DOMAIN result[r]
            /\ result[r].user_id = req[r].user_id
            /\ IF result[r].success
               THEN {"intent", "final_response"} \subseteq DOMAIN result[r]
               ELSE "error" \in DOMAIN result[r]

\* C9: the intent label given to a request's synthesizer and the intent of
\* its result are the intent read for that request from its own user's
\* orchestrator thread, whatever other users' requests do meanwhile.
OwnIntentOnly ==
    \A r \in Users :
        (req[r].orch = "final" /\ Routed(r)) =>
            /\ req[r].routed_on = strip(req[r].read_intent)
            /\ req[r].pc \in {"synth", "done"} =>
                   ContainsLabelled(req[r].context, INTENT_LABEL,
                                    strip(req[r].read_intent) \o <<"\n">>)
            /\ (Done(r) /\ result[r].success) =>
                   result[r].intent = strip(req[r].read_intent)

ContextBuilt(r) == req[r].pc \in {"synth", "done"} /\ Ran(r, "final_response_agent")

ContextHeader(r) ==
    /\ ContainsLabelled(req[r].context, QUERY_LABEL, req[r].query)
    /\ Contains(req[r].context, INTENT_LABEL)

\* C10 as stated: the synthesizer's context has the query and the intent
\* label, a Transaction Data section exactly when the structured-data agent
\* was invoked and a Product Information section exactly when the retrieval
\* agent was invoked.
ContextSectionsIffInvoked ==
    \A r \in Users :
        ContextBuilt(r) =>
            /\ ContextHeader(r)
            /\ Contains(req[r].context, TRANSACTION_SECTION) <=> Ran(r, "mcp_tools_agent")
            /\ Contains(req[r].context, PRODUCT_SECTION) <=> Ran(r, "rag_agent")

\* C10 as amended: a section is present exactly when its agent was invoked
\* and returned a non-empty output (its final text or its error text).
ContextSectionsIffOutput ==
    \A r \in Users :
        ContextBuilt(r) =>
            /\ ContextHeader(r)
            /\ Contains(req[r].context, TRANSACTION_SECTION) <=>
                   (Ran(r, "mcp_tools_agent") /\ req[r].mcp_output # <<>>)
            /\ Contains(req[r].context, PRODUCT_SECTION) <=>
                   (Ran(r, "rag_agent") /\ req[r].rag_output # <<>>)

\* structured-data route: Transaction Data section and no Product section
ContextSectionsWitness ==
    \E r \in Users :
        /\ ContextBuilt(r)
        /\ req[r].branch = "transaction"
        /\ Contains(req[r].context, TRANSACTION_SECTION)
        /\ ~Contains(req[r].context, PRODUCT_SECTION)
\* C11: when no category passes the threshold no specialist is invoked, the
\* synthesizer is invoked exactly once, its context holds the original
\* query and the intent label and nothing else from an agent, and the
\* request returns a success result.
RouteNoneStillAnswers ==
    \A r \in Users :
        req[r].branch = "none" =>
            /\ req[r].calls = <<"orchestrator_agent", "final_response_agent">>
            /\ req[r].context =
                   <<QUERY_LABEL>> \o req[r].query \o <<"\n", INTENT_LABEL>>
                   \o req[r].routed_on \o <<"\n", SYNTH_REQUEST>>
            /\ Done(r) => /\ result[r].success = TRUE
                          /\ "error" \notin DOMAIN result[r]

\* an intent with a single category word was answered without a specialist
RouteNoneStillAnswersWitness ==
    \E r \in Users :
        /\ Done(r)
        /\ req[r].branch = "none"
        /\ Shared(r, "transaction") = 1
        /\ result[r].success = TRUE

AgentOfPc ==
    [ orch |-> "orchestrator_agent", mcp |-> "mcp_tools_agent",
      rag |-> "rag_agent", synth |-> "final_response_agent" ]

AgentRank ==
    [ orchestrator_agent |-> 1, mcp_tools_agent |-> 2,
      rag_agent |-> 3, final_response_agent |-> 4 ]

\* C12: the invocations of a request are made in the order orchestrator,
\* structured-data, retrieval, synthesizer; the invocation a request waits
\* on is the last one it made, so no two of them overlap; on the hybrid
\* branch the structured-data agent has returned its output before the
\* retrieval agent is invoked.
StagesSequential ==
    \A r \in Users :
        LET c == req[r].calls
        IN /\ \A i, j \in DOMAIN c : i < j => AgentRank[c[i]] < AgentRank[c[j]]
           /\ c # <<>> => c[1] = "orchestrator_agent"
           /\ req[r].pc \in DOMAIN AgentOfPc => c[Len(c)] = AgentOfPc[req[r].pc]
           /\ (req[r].branch = "hybrid" /\ Ran(r, "rag_agent")) =>
                  /\ Ran(r, "mcp_tools_agent")
                  /\ req[r].mcp_output # NoneVal
           /\ Ran(r, "final_response_agent") =>
                  /\ req[r].branch \in {"transaction", "hybrid"} => req[r].mcp_output # NoneVal
                  /\ req[r].branch \in {"product", "hybrid"} => req[r].rag_output # NoneVal

\* the hybrid branch waiting on the retrieval agent after the
\* structured-data agent returned
StagesSequentialWitness ==
    \E r \in Users :
        /\ req[r].pc = "rag"
        /\ req[r].calls = <<"orchestrator_agent", "mcp_tools_agent", "rag_agent">>
        /\ req[r].mcp_output # NoneVal
\* the role whose thread the agent awaited at a position writes
RoleOfPc ==
    [ orch |-> "orchestrator_session", mcp |-> "mcp_session",
      rag |-> "rag_session", synth |-> "final_response_session" ]

\* C13: get-or-create is idempotent per (user, thread id): the first call
\* creates the thread with state {user_id} only; a later call returns the
\* stored thread, whose creation count, user_id and output slot it leaves
\* as they were (the slot changes only by the write of the agent that was
\* awaited on that thread).
SessionGetOrCreateIdempotent ==
    [][\A k \in Users \X Roles :
          /\ (~sessions[k].exists /\ sessions'[k].exists) =>
                 sessions'[k] = [exists |-> TRUE, out |-> NoneVal,
                                 user_id |-> k[1], created |-> 1]
          /\ sessions[k].exists =>
                 /\ sessions'[k].exists
                 /\ sessions'[k].created = sessions[k].created
                 /\ sessions'[k].user_id = sessions[k].user_id
                 /\ sessions'[k].out # sessions[k].out =>
                        /\ req[k[1]].pc \in DOMAIN RoleOfPc
                        /\ RoleOfPc[req[k[1]].pc] = k[2]
      ]_vars

\* a later request of a user waits on its orchestrator, whose thread still
\* holds the label an earlier request left
SessionGetOrCreateIdempotentWitness ==
    \E u \in Users :
        /\ req[u].pc = "orch"
        /\ sessions[<<u, "orchestrator_session">>].exists
        /\ truthy(sessions[<<u, "orchestrator_session">>].out)

\* C14: for every user and each of the four roles at most one thread is
\* ever stored, and a thread exists exactly when it was created once; a
\* re-invocation of the role for the user reuses it.
OneThreadPerUserAndRole ==
    \A k \in Users \X Roles :
        /\ sessions[k].created <= 1
        /\ sessions[k].exists <=> sessions[k].created = 1
        /\ sessions[k].exists => sessions[k].user_id = k[1]

\* the second request of a user, alone in the system, waits on the
\* synthesizer without having called a specialist, while the user's
\* structured-data thread exists: the first request went through both
\* agents, and every thread of the user was created once
OneThreadPerUserAndRoleWitness ==
    \E u \in Users :
        /\ started = 2
        /\ \A v \in Users \ {u}, R \in Roles : ~sessions[<<v, R>>].exists
        /\ req[u].pc = "synth"
        /\ req[u].branch = "none"
        /\ sessions[<<u, "mcp_session">>].exists
        /\ sessions[<<u, "final_response_session">>].created = 1
\* C15: requests of different users never touch the same thread: a thread
\* (U, R) changes only in a step of U's own request, at the moment that
\* request waits on or invokes role R, and the label a request reads back
\* is the one stored in its own user's orchestrator thread.
ThreadsIsolatedByUser ==
    [][\A u \in Users :
          /\ \A R \in Roles :
                sessions'[<<u, R>>] # sessions[<<u, R>>] =>
                    /\ req'[u] # req[u]
                    /\ \/ /\ req[u].pc \in DOMAIN RoleOfPc
                          /\ RoleOfPc[req[u].pc] = R
                       \/ /\ req'[u].pc \in DOMAIN RoleOfPc
                          /\ RoleOfPc[req'[u].pc] = R
                    /\ \A v \in Users \ {u} : req'[v] = req[v]
          /\ (req[u].pc = "orch" /\ req'[u].read_intent # Unset) =>
                req'[u].read_intent = sessions'[<<u, "orchestrator_session">>].out
      ]_vars

\* two users in flight at once whose orchestrator threads hold different
\* labels, each request having read its own
ThreadsIsolatedByUserWitness ==
    \E u, v \in Users :
        /\ u # v
        /\ req[u].pc = "mcp"
        /\ req[v].pc = "rag"
        /\ truthy(req[u].read_intent)
        /\ truthy(req[v].read_intent)
        /\ req[u].read_intent # req[v].read_intent
        /\ sessions[<<u, "orchestrator_session">>].out = req[u].read_intent
        /\ sessions[<<v, "orchestrator_session">>].out = req[v].read_intent
\* the agents of a request whose event stream delivered a final text to
\* the loop that awaited it
ProducedFinalText(r) ==
    {a \in {"orchestrator_agent"} : req[r].orch = "final"}
    \cup {a \in {"mcp_tools_agent"} : req[r].mcp_output \in AgentTexts}
    \cup {a \in {"rag_agent"} : req[r].rag_output \in AgentTexts}
    \cup {a \in {"final_response_agent"} :
              /\ Done(r)
              /\ result[r].success = TRUE
              /\ result[r].final_response \in AgentTexts}

\* C16: every agent invocation that produced its final text has been
\* followed by the save of its thread to long-term memory, also when a
\* later stage failed, so a returning request has saved every thread it ran.
MemorySavedAfterFinalText ==
    \A r \in Users : ProducedFinalText(r) \subseteq req[r].saved
\* str.lower on the characters of the model
lower(t) == [i \in DOMAIN t |-> IF t[i] = "A" THEN "a" ELSE t[i]]

\* the word set of an intent text trimmed, stripped of punctuation,
\* lowercased and split
NormalizedWords(t) == set(split(lower(remove_punctuation(strip(t)))))

\* C17: the route of a request is the route of its normalized intent
\* (trimmed, punctuation stripped, lowercased, split into a word set), so
\* texts that differ only in letter case, punctuation or surrounding
\* whitespace are routed alike.
RouteOfNormalizedIntent ==
    \A r \in Users :
        Routed(r) => req[r].branch = branch_of(NormalizedWords(req[r].read_intent))
Called(tool) == call.tool = tool

CharsOf(text) == {text[i] : i \in DOMAIN text}

\* digits, parentheses, the operator characters and whitespace
ListedChars == Digits \cup {"(", ")"} \cup {"+", "-", "*", "/", "%"} \cup {" ", "\t"}

\* C18 as stated: calculate evaluates an expression only if every
\* character is a digit, a parenthesis, one of + - * / % or whitespace; an
\* expression with any other character gets the invalid-characters error
\* and is never evaluated.
CalculateAllowlistAsListed ==
    Called("calculate") =>
        /\ call.evaluated => CharsOf(call.args[1]) \subseteq ListedChars
        /\ ~(CharsOf(call.args[1]) \subseteq ListedChars) =>
               /\ ~call.evaluated
               /\ call.ret = Str(<<INVALID_CHARACTERS>>)

\* C18 (amended): calculate evaluates an expression exactly when every
\* character is a digit, a parenthesis, one of + - * / %, the decimal
\* point or a space; an expression with any other character (a tab, a
\* letter, an underscore, a quote) gets the invalid-characters error and
\* is never evaluated.
CalculateAllowlist ==
    Called("calculate") =>
        LET permitted == CharsOf(call.args[1]) \subseteq
                             Digits \cup {"(", ")", "+", "-", "*", "/", "%", ".", " "}
        IN /\ call.evaluated <=> permitted
           /\ ~permitted => call.ret = Str(<<INVALID_CHARACTERS>>)

\* the import expression was turned away at the allowlist
CalculateAllowlistWitness ==
    /\ Called("calculate")
    /\ "_" \in CharsOf(call.args[1])
    /\ "i" \in CharsOf(call.args[1])
    /\ ~call.evaluated
    /\ call.ret = Str(<<INVALID_CHARACTERS>>)

\* C19: calculate and divide return a str for every input; a division by
\* zero returns the explicit division-by-zero text, every other evaluation
\* error a text that starts with "Error: ", and "2 + 2" a text whose
\* result is 4.
ArithmeticNeverRaises ==
    /\ Called("calculate") =>
          /\ call.ret.type = "str"
          /\ call.raised = "ZeroDivisionError" => call.ret = Str(<<DIVISION_BY_ZERO>>)
          /\ call.raised \notin {"-", "ZeroDivisionError"} =>
                 /\ call.ret.parts[1] = "Error: "
                 /\ Len(call.ret.parts) = 2
          /\ call.args[1] = <<"1", "/", "0">> => call.raised = "ZeroDivisionError"
          /\ call.args[1] = <<"2", " ", "+", " ", "2">> =>
                 call.ret = Str(<<"2", " ", "+", " ", "2", " = ", "4">>)
    /\ Called("divide") =>
          /\ call.ret.type = "str"
          /\ call.args[2] = 0 => call.ret = Str(<<DIVISION_BY_ZERO_NOT_ALLOWED>>)
          /\ call.args[2] # 0 => call.ret.parts[Len(call.ret.parts)] \in {"0.0", "0.5", "1.0", "2.0"}

\* calculate("1/0") came back with the division-by-zero text
ArithmeticNeverRaisesWitness ==
    /\ Called("calculate")
    /\ call.args[1] = <<"1", "/", "0">>
    /\ call.evaluated
    /\ call.ret = Str(<<DIVISION_BY_ZERO>>)
\* the tools registered with @mcp.tool()
RegisteredTools ==
    { "get_customer", "get_transactions_by_filters", "get_account",
      "get_customer_accounts", "get_transactions_by_customer",
      "get_customers_by_filters", "get_customer_transactions_with_date_time",
      "get_all_transactions_summary_for_customer", "get_current_date_time",
      "add", "subtract", "multiply", "divide", "calculate", "sum_numbers", "average" }

\* C20: every registered tool returns a str for every input, also when
\* the data operation behind it fails; no call ends in an exception.
EveryToolReturnsStr ==
    call.tool \in RegisteredTools => call.ret.type = "str"
Waiting(r) == req[r].pc \in DOMAIN AgentOfPc

\* C21: orchestrate has no timeout and no cancellation.  When every
\* event stream that is waited on eventually yields its final event, ends
\* or raises, a request that waits on an agent eventually reaches its
\* return; and a request that waits on an agent leaves that position by
\* nothing but an outcome of the stream, so a stream that hangs forever
\* keeps its request from ever returning.
ReturnsUnlessStreamHangs ==
    /\ \A r \in Users : Waiting(r) ~> Done(r)
    /\ [][\A r \in Users :
              (Waiting(r) /\ ~StreamStep(r)) =>
                  /\ req'[r] = req[r]
                  /\ result'[r] = result[r]]_vars

\* a request on the hybrid branch went through all four agents and is
\* about to return
ReturnsUnlessStreamHangsWitness ==
    \E r \in Users :
        /\ Done(r)
        /\ req[r].calls = <<"orchestrator_agent", "mcp_tools_agent", "rag_agent",
                            "final_response_agent">>
        /\ result[r].success = TRUE
\* C22: a configuration source that is missing or lacks a required key
\* makes the construction fail; an orchestrator that was constructed has
\* every required key, and no request fails on a missing key.
ConfigurationFailsFast ==
    /\ provider.pc \in {"ready", "served"} => RequiredKeys \subseteq provider.keys
    /\ provider.pc = "served" => provider.error = "-"
\* C23: for each agent invocation the controller drains the event stream:
\* it does not stop consuming while the executor still has events or
\* end-of-turn work pending, so no stream of a request is left unfinished.
StreamsDrained ==
    \A r \in Users : req[r].abandoned = {}
\* C24: the intent a request is routed on is the value its own
\* orchestrator run wrote into the thread: a request whose orchestrator
\* run wrote no query_intent is not routed on the label an earlier
\* request of the user left in the thread.
RoutedOnOwnLabel ==
    \A r \in Users : (Routed(r) /\ req[r].orch = "final") => req[r].wrote
\* the stream of the agent was consumed to its end without a final event
\* (the only way the end-of-turn callback gets to run)
EndedWithoutFinal(r, agent) == agent \in req[r].saved

\* C25: when an agent's event stream ends without a final-text event the
\* controller returns nothing undefined or stale: after the orchestrator
\* the request ends with success = false, a specialist's output is that
\* specialist's error text, and the synthesizer's final_response is the
\* apology.
EndOfStreamHandled ==
    \A r \in Users :
        /\ EndedWithoutFinal(r, "orchestrator_agent") =>
               /\ Done(r)
               /\ result[r].success = FALSE
               /\ result[r].error = UnboundLocalError
               /\ req[r].calls = <<"orchestrator_agent">>
        /\ EndedWithoutFinal(r, "mcp_tools_agent") =>
               req[r].mcp_output = MCP_ERROR_PREFIX \o UnboundLocalError
        /\ EndedWithoutFinal(r, "rag_agent") =>
               req[r].rag_output = RAG_ERROR_PREFIX \o UnboundLocalError
        /\ EndedWithoutFinal(r, "final_response_agent") =>
               /\ Done(r)
               /\ result[r].success = TRUE
               /\ result[r].final_response = APOLOGY

\* both specialists of a hybrid request ended without a final event and
\* the synthesizer is running on their two error texts
EndOfStreamHandledWitness ==
    \E r \in Users :
        /\ req[r].pc = "synth"
        /\ EndedWithoutFinal(r, "mcp_tools_agent")
        /\ EndedWithoutFinal(r, "rag_agent")
        /\ Contains(req[r].context, TRANSACTION_SECTION)
\* the load whose set() released the caller's wait
WaitedLoad(c) == mcp.callers[c].waited

\* C26: get_tools_sync reports the outcome of the load it waited for: a
\* caller released by a load that produced a toolset returns a toolset and
\* does not raise the error of an earlier load.
ReportsWaitedLoad ==
    \A c \in Callers :
        (CallerAt(c, "done") /\ WaitedLoad(c) # 0) =>
            LET load == mcp.threads[WaitedLoad(c)].outcome
            IN  /\ load.type = "MCPToolset" => mcp.callers[c].outcome.type = "MCPToolset"
                /\ load.type = "raise" => mcp.callers[c].outcome = load

Loading == { i \in DOMAIN mcp.threads : is_alive(i) }

\* C27: with get_tools_sync called from several threads at most one loader
\* thread is started or running at a time, no caller returns before a load
\* has finished, and every caller raises the load's error or returns a
\* toolset that is not None.
OneLoaderAtATime ==
    /\ Cardinality(Loading) <= 1
    /\ \A c \in Callers :
           CallerAt(c, "done") =>
               /\ \E i \in DOMAIN mcp.threads : mcp.threads[i].state = "dead"
               /\ \/ mcp.callers[c].outcome.type = "MCPToolset"
                  \/ /\ mcp.callers[c].outcome.type = "raise"
                     /\ mcp.callers[c].outcome.exc = "Exception"
\* C28: whatever the interleaving of concurrent first requests,
\* BankingAgent.orchestrate constructs one MultiAgentOrchestrator only (one
\* session store, one memory store), so no thread is left in the store of
\* an orchestrator that a later construction replaced.
OneOrchestratorEver ==
    /\ Len(banking.stores) <= 1
    /\ \A i \in DOMAIN banking.stores :
           banking.stores[i] # {} => banking.multi_agent = i
\* this step is a data operation of the database client
DataOperationStep ==
    /\ mongo'.ops = mongo.ops + 1
    /\ mongo'.last.op \in {"get_customer_by_id", "search_customers"}

\* C29: a failed connection attempt is not permanent: after connect fails
\* _is_connected is false, and the next data operation on the (never
\* closed) client connects again and succeeds when the database is
\* reachable.
FailedConnectNotPermanent ==
    /\ [](mongo.last.type = "raise" => ~mongo._is_connected)
    /\ [][(/\ DataOperationStep
           /\ ~mongo._is_connected
           /\ mongo.client # "closed"
           /\ mongo.reachable)
              => /\ mongo'._is_connected
                 /\ mongo'.last.type = "return"]_vars
\* how many times the id was handed to the collection
TimesAdded(pid) == Cardinality({i \in DOMAIN qdrant.points : qdrant.points[i] = pid})

\* this step is a call of add_documents
AddDocumentsStep == qdrant'.calls = qdrant.calls + 1

====
